---- MODULE Spec2Model ----
(***************************************************************************)
(* Ingestion and validation pipeline of the data-collection server         *)
(* (uploader/views.py): the heart-rate batch upload (upload_json) and the  *)
(* single emotion submission (upload_emotion_json), with the two tables    *)
(* they append to.                                                         *)
(*                                                                         *)
(* Numbers.  A JSON number, and a Python float, is held as the integer     *)
(* 1000 * v + f with 0 <= f < 1000, in the unit of its field:              *)
(* milliseconds for a batch "ts" (so v is whole seconds and f the          *)
(* millisecond remainder), ten-thousandths for valence and arousal         *)
(* (5.0 is v = 50, f = 0; 5.0001 is v = 50, f = 1), tenths for bpm.        *)
(* A datetime is the UTC instant (utc seconds, ms), the UTC offset of its  *)
(* tzinfo in seconds (off) and whether it carries a tzinfo at all (aware). *)
(***************************************************************************)
EXTENDS Integers, Sequences, FiniteSets, TLC

VARIABLES hrStore, emoStore, pc, req, resp, nreq, workers

vars == <<hrStore, emoStore, pc, req, resp, nreq, workers>>

\* Bounds of the exploration.
MaxSamples == 2
MaxRequests == 2

---------------------------------------------------------------------------
\* JSON values as the handlers see them after json.load / json.loads.

R(tag, v, f) == [tag |-> tag, v |-> v, f |-> f]

Absent == R("absent", 0, 0)      \* the key is not in the object
Null == R("null", 0, 0)          \* JSON null
Num(n) == R("num", n \div 1000, n % 1000)   \* a finite JSON number
NumStr(n) == R("str", n \div 1000, n % 1000) \* a string holding that number ("3.2")
NaN == R("nan", 0, 0)            \* the literal NaN, which json accepts
Infinity == R("inf", 1, 0)       \* the literal Infinity (or 1e400)
Huge == R("huge", 1, 0)          \* a finite number such as 1e18
Text == R("text", 0, 0)          \* the non-numeric string "u1"
EmptyStr == R("empty", 0, 0)     \* the string ""
List == R("list", 0, 0)          \* a non-empty JSON array
\* ISO-8601 strings: v, f are the wall-clock fields read as seconds and
\* milliseconds since 1970-01-01T00:00:00; the tag is the suffix.
IsoZ(s) == R("isoZ", s, 0)       \* "...Z"
IsoPlus2(s) == R("isoPlus2", s, 0)   \* "...+02:00"
IsoNaive(s) == R("isoNaive", s, 0)   \* no offset
IsoFar == R("isoFar", 0, 0)      \* "9999-12-31T23:59:59Z"

\* dict.get(key): an absent key and a null value both give None.
IsNone(x) == x.tag \in {"absent", "null"}

\* Python truthiness of a decoded JSON value.
Truthy(x) ==
  CASE x.tag \in {"absent", "null", "empty"} -> FALSE
    [] x.tag = "num" -> ~(x.v = 0 /\ x.f = 0)
    [] OTHER -> TRUE

---------------------------------------------------------------------------
\* Python floats and exceptions.

Fl(k, v, f) == [k |-> k, v |-> v, f |-> f]
Exc(name) == Fl(name, 0, 0)
IsExc(x) == x.k \notin {"fin", "nan", "inf", "huge"}

\* The exception classes that `except ValueError` catches.
IsValueError(e) == e \in {"ValueError", "JSONDecodeError", "UnicodeDecodeError"}

\* float(x) of a decoded JSON value.
PyFloat(x) ==
  CASE x.tag \in {"num", "str"} -> Fl("fin", x.v, x.f)
    [] x.tag = "nan" -> Fl("nan", 0, 0)
    [] x.tag = "inf" -> Fl("inf", x.v, 0)
    [] x.tag = "huge" -> Fl("huge", x.v, 0)
    [] x.tag \in {"absent", "null", "list"} -> Exc("TypeError")
    [] OTHER -> Exc("ValueError")

\* a <= b on floats, b finite; every comparison with NaN is false.
FloatLeq(a, b) ==
  CASE a.k = "nan" -> FALSE
    [] a.k \in {"inf", "huge"} -> a.v < 0
    [] OTHER -> 1000 * a.v + a.f <= b
\* b <= a on floats, b finite.
FloatGeq(a, b) ==
  CASE a.k = "nan" -> FALSE
    [] a.k \in {"inf", "huge"} -> a.v > 0
    [] OTHER -> 1000 * a.v + a.f >= b

\* 5.0 in ten-thousandths.
RangeMax == 50000

\* The range check written as not (x < 0.0 or x > 5.0): NaN passes it.
InRangeNegated(x) == x.k = "nan" \/ (FloatGeq(x, 0) /\ FloatLeq(x, RangeMax))

\* The range check with strict bounds, 0.0 < x < 5.0.
InRangeExclusive(x) == FloatGeq(x, 1) /\ FloatLeq(x, RangeMax - 1)

\* 0.0 <= x <= 5.0
InRange(x) == FloatGeq(x, 0) /\ FloatLeq(x, RangeMax)

---------------------------------------------------------------------------
\* Timestamps.

\* The conversion done with tz=timezone.utc.
KolkataOffsetUtc(t) == 0

\* UTC offset, in seconds, of ZoneInfo("Asia/Kolkata") at a UTC instant
\* (seconds since the epoch; the instants from 1901-12-13 on).
KolkataOffset(t) ==
  CASE t < -2019705670 -> 19270                      \* +05:21:10 until 1906
    [] t >= -2019705670 /\ t < -891581400 -> 19800   \* +05:30
    [] t >= -891581400 /\ t < -872058600 -> 23400    \* +06:30, 1941-42
    [] t >= -872058600 /\ t < -862637400 -> 19800
    [] t >= -862637400 /\ t < -764145000 -> 23400    \* +06:30, 1942-45
    [] OTHER -> 19800                                \* +05:30 since 1945-10-15

Dt(utc, ms, off, aware) == [utc |-> utc, ms |-> ms, off |-> off, aware |-> aware]
NoDt == Dt(0, 0, 0, FALSE)

Ok(val) == [exc |-> "none", val |-> val]
Raise(e) == [exc |-> e, val |-> NoDt]

\* datetime.fromtimestamp(x / 1000, tz=ZoneInfo("Asia/Kolkata")) of a float x
\* in milliseconds: x / 1000 is x.v seconds and x.f milliseconds.
FromTimestampMs(x) ==
  CASE x.k = "nan" -> Raise("ValueError")       \* cannot convert NaN
    [] x.k = "huge" -> Raise("ValueError")      \* year is out of range
    [] x.k = "inf" -> Raise("OverflowError")    \* out of range for time_t
    [] OTHER -> Ok(Dt(x.v, x.f, KolkataOffset(x.v), TRUE))

---------------------------------------------------------------------------
\* Heart-rate batch upload.

\* One element of "samples": a JSON object with its "ts" and "bpm" entries,
\* or a JSON value that is not an object.
Sample(ts, bpm) == [isdict |-> TRUE, ts |-> ts, bpm |-> bpm]
NotAnObject == [isdict |-> FALSE, ts |-> Absent, bpm |-> Absent]

Parsed(kind, exc, ts, bpm) == [kind |-> kind, exc |-> exc, ts |-> ts, bpm |-> bpm]
ReturnNone == Parsed("none", "none", NoDt, Fl("fin", 0, 0))

\* Lines 29-33 of _parse_and_validate_sample, the two floats in hand: the
\* datetime conversion and the tuple returned.
ConvertSample(timestamp_ms, bpm, ist) ==
  IF IsExc(timestamp_ms) THEN Parsed("raise", timestamp_ms.k, NoDt, bpm)
  ELSE IF IsExc(bpm) THEN Parsed("raise", bpm.k, NoDt, bpm)
  ELSE IF ist.exc # "none" THEN Parsed("raise", ist.exc, NoDt, bpm)
  ELSE Parsed("tuple", "none", ist.val, bpm)

\* The try block with bpm = sample.get("bpm", 0): a sample without bpm is
\* kept with bpm 0.
ParseSampleBodyDefaultBpm(sample) ==
  IF ~sample.isdict THEN Parsed("raise", "AttributeError", NoDt, Fl("fin", 0, 0))
  ELSE IF IsNone(sample.ts) \/ sample.bpm.tag = "null" THEN ReturnNone
  ELSE ConvertSample(PyFloat(sample.ts),
                     IF sample.bpm.tag = "absent" THEN Fl("fin", 0, 0)
                     ELSE PyFloat(sample.bpm),
                     FromTimestampMs(PyFloat(sample.ts)))

\* The body of the try block of _parse_and_validate_sample: the tuple, None,
\* or the exception raised.
ParseSampleBody(sample) ==
  IF ~sample.isdict THEN Parsed("raise", "AttributeError", NoDt, Fl("fin", 0, 0))
  ELSE IF IsNone(sample.ts) \/ IsNone(sample.bpm) THEN ReturnNone
  ELSE ConvertSample(PyFloat(sample.ts), PyFloat(sample.bpm),
                     FromTimestampMs(PyFloat(sample.ts)))

\* except (ValueError, TypeError): return None; any other exception leaves
\* the function.
CatchSampleErrors(r) ==
  IF r.kind = "raise" /\ r.exc \in {"ValueError", "TypeError"}
  THEN ReturnNone
  ELSE r

\* _parse_and_validate_sample
parse_and_validate_sample(sample) == CatchSampleErrors(ParseSampleBody(sample))

\* The insert done as update_or_create(userId=..., timestamp=...): a row of
\* the same user and instant is overwritten.
CreateHrUpsert(store, userId, timestamp, hr) ==
  IF \E k \in 1..Len(store) :
       store[k].userId = userId /\ store[k].timestamp = timestamp
  THEN [k \in 1..Len(store) |->
          IF store[k].userId = userId /\ store[k].timestamp = timestamp
          THEN [store[k] EXCEPT !.hr = hr] ELSE store[k]]
  ELSE Append(store, [id |-> Len(store) + 1, userId |-> userId,
                      timestamp |-> timestamp, hr |-> hr])

\* HeartRateData.objects.create: an autocommitted insert; the AutoField id is
\* the next of the table's sequence (no row is ever deleted).
CreateHr(store, userId, timestamp, hr) ==
  Append(store, [id |-> Len(store) + 1, userId |-> userId,
                 timestamp |-> timestamp, hr |-> hr])

\* The body of the for loop of upload_json, the sample parsed: the table and
\* the ids after it, and the exception that left the loop ("none" when none
\* did).
LoopBody(parsed_data, store, ids, userId) ==
  CASE parsed_data.kind = "raise" ->
         [store |-> store, ids |-> ids, exc |-> parsed_data.exc]
    [] parsed_data.kind = "tuple" ->
         [store |-> CreateHr(store, userId, parsed_data.ts, parsed_data.bpm),
          ids |-> Append(ids, Len(store) + 1), exc |-> "none"]
    [] OTHER -> [store |-> store, ids |-> ids, exc |-> "none"]

\* One pass of the for loop of upload_json.
LoopStep(sample, store, ids, userId) ==
  LoopBody(parse_and_validate_sample(sample), store, ids, userId)

LoopState(store, ids, parsed, exc) ==
  [store |-> store, ids |-> ids, parsed |-> parsed, exc |-> exc]

\* The loop state after sample i, from the state before it: an exception has
\* already ended the loop, or the sample is handled.
Counted(step, i) == LoopState(step.store, step.ids, i, step.exc)
LoopAdvance(before, sample, i, userId) ==
  IF before.exc # "none" THEN before
  ELSE Counted(LoopStep(sample, before.store, before.ids, userId), i)

\* The for loop of upload_json: the table, the ids created, the number of
\* samples handed to the parser and the exception that ended the loop
\* ("none" when it ran to the end).
SampleLoop(samples, store, userId) ==
  LET after[i \in 0..Len(samples)] ==
        IF i = 0 THEN LoopState(store, <<>>, 0, "none")
        ELSE LoopAdvance(after[i - 1], samples[i], i, userId)
  IN after[Len(samples)]

Resp(status, message, ids, parsed, stages) ==
  [status |-> status, message |-> message, created |-> Len(ids), ids |-> ids,
   parsed |-> parsed, stages |-> stages]
NoResp == Resp(0, "", <<>>, 0, <<>>)

\* int(request.POST.get("userid", 999))
DefaultUserid(form) ==
  CASE form = "absent" -> [exc |-> "none", val |-> 999]
    [] form = "7" -> [exc |-> "none", val |-> 7]
    [] OTHER -> [exc |-> "ValueError", val |-> 0]

\* The except clauses of upload_json.
UploadJsonExcept(exc, ids, parsed) ==
  IF exc = "JSONDecodeError"
  THEN Resp(400, "Invalid JSON file. Could not decode.", ids, parsed, <<>>)
  ELSE Resp(500, "An unexpected server error occurred", ids, parsed, <<>>)

\* The envelope check without the comparison of the type tag.
EnvelopeTypeUnchecked(r) == r.body = "object"

\* isinstance(data, dict) and data.get("type") == "heart_rate_batch"
EnvelopeTypeOk(r) == r.body = "object" /\ r.typeTag = "heart_rate_batch"

Early(rsp) == [early |-> TRUE, resp |-> rsp, samples |-> <<>>, userId |-> 0]

\* upload_json up to the loop: the response that ends the request early, or
\* the samples and the user id the loop runs with.
UploadJsonEnvelope(r) ==
  IF r.method # "POST" \/ ~r.hasFile
  THEN Early(Resp(400, "Invalid request. Use POST and include a 'file' upload.",
                  <<>>, 0, <<>>))
  ELSE IF r.body = "malformed"
  THEN Early(UploadJsonExcept("JSONDecodeError", <<>>, 0))
  ELSE IF r.body = "badutf8"
  THEN Early(UploadJsonExcept("UnicodeDecodeError", <<>>, 0))
  ELSE IF ~EnvelopeTypeOk(r)
  THEN Early(Resp(400, "Invalid JSON format or type.", <<>>, 0, <<>>))
  ELSE IF r.samplesKind \notin {"list", "absent"}
  THEN Early(Resp(400, "Invalid 'samples' format. It must be a list.",
                  <<>>, 0, <<>>))
  ELSE LET default_userid == DefaultUserid(r.formUserid)
       IN IF default_userid.exc # "none"
          THEN Early(UploadJsonExcept(default_userid.exc, <<>>, 0))
          ELSE [early |-> FALSE, resp |-> NoResp,
                samples |-> IF r.samplesKind = "absent" THEN <<>> ELSE r.samples,
                userId |-> default_userid.val]

\* The 201 response of upload_json.
UploadJsonSummary(ids, parsed) ==
  Resp(201, "Successfully processed records.", ids, parsed, <<>>)

\* The end of upload_json, the loop done: the 500 of the exception that
\* left it, or the 201 summary. The rows inserted before an exception stay.
UploadJsonFinish(loop) ==
  IF loop.exc # "none"
  THEN [store |-> loop.store,
        resp |-> UploadJsonExcept(loop.exc, loop.ids, loop.parsed)]
  ELSE [store |-> loop.store, resp |-> UploadJsonSummary(loop.ids, loop.parsed)]

\* upload_json from the envelope on.
UploadJsonRun(e, store) ==
  IF e.early THEN [store |-> store, resp |-> e.resp]
  ELSE UploadJsonFinish(SampleLoop(e.samples, store, e.userId))

\* upload_json: the response and the table after the request.
upload_json(r, store) == UploadJsonRun(UploadJsonEnvelope(r), store)

---------------------------------------------------------------------------
\* Single emotion submission.

\* str(userid)
PyStr(x) ==
  CASE x.tag = "text" -> "u1"
    [] x.tag = "num" /\ x.v = 0 /\ x.f = 0 -> "0"
    [] OTHER -> "other"

\* 9999-12-31T23:59:59+00:00, the one datetime of the model that lies
\* within a day of datetime.max.
FarDt == Dt(2147483647, 999, 0, TRUE)

\* datetime.fromisoformat(timestamp_str.replace("Z", "+00:00")): a naive
\* datetime keeps its wall-clock reading in utc and has aware = FALSE.
FromIsoFormat(x) ==
  CASE x.tag = "isoZ" -> Ok(Dt(x.v, x.f, 0, TRUE))
    [] x.tag = "isoPlus2" -> Ok(Dt(x.v - 7200, x.f, 7200, TRUE))
    [] x.tag = "isoNaive" -> Ok(Dt(x.v, x.f, 0, FALSE))
    [] x.tag = "isoFar" -> Ok(FarDt)
    [] OTHER -> Raise("ValueError")

\* timestamp.astimezone(ZoneInfo("Asia/Kolkata")); a naive datetime is read
\* in the system's local zone, whose offset is localOff.
AsTimezoneKolkata(d, localOff) ==
  IF d = FarDt THEN Raise("OverflowError")
  ELSE LET utc == IF d.aware THEN d.utc ELSE d.utc - localOff
       IN Ok(Dt(utc, d.ms, KolkataOffset(utc), TRUE))

\* isinstance(timestamp_str, str)
IsStr(x) ==
  x.tag \in {"str", "text", "empty", "isoZ", "isoPlus2", "isoNaive", "isoFar"}

\* The offsets the system's local zone may have (TIME_ZONE is not set by
\* this code): UTC or Asia/Kolkata.
LocalOffsets == {0, 19800}

\* EmotionData.objects.create: as CreateHr; type keeps its default.
CreateEmotion(store, userId, timestamp, valence, arousal) ==
  Append(store, [id |-> Len(store) + 1, userId |-> userId,
                 timestamp |-> timestamp, valence |-> valence,
                 arousal |-> arousal, type |-> "periodic"])

\* The except clauses of upload_emotion_json.
UploadEmotionExcept(exc, stages) ==
  IF exc = "JSONDecodeError"
  THEN Resp(400, "Invalid JSON data. Could not decode.", <<>>, 0, stages)
  ELSE IF IsValueError(exc)
  THEN Resp(400, "Data validation error", <<>>, 0, stages)
  ELSE Resp(500, "An unexpected server error occurred", <<>>, 0, stages)

\* The required-field check without the timestamp.
RequiredFieldsNoTimestamp(r) ==
  Truthy(r.userid) /\ ~IsNone(r.valence) /\ ~IsNone(r.arousal)

\* all([userid, timestamp_str, valence is not None, arousal is not None])
RequiredFields(r) ==
  Truthy(r.userid) /\ Truthy(r.timestamp) /\ ~IsNone(r.valence) /\ ~IsNone(r.arousal)

\* upload_emotion_json: the response and the table after the request. stages
\* lists the stages of the request the handler has passed.
upload_emotion_json(r, store, localOff) ==
  LET s1 == <<"Received">>
      s2 == Append(s1, "FieldsValidated")
      s3 == Append(s2, "RangeValidated")
      s4 == Append(s3, "TimestampParsed")
      s5 == Append(s4, "Persisted")
      s6 == Append(s5, "Summarized")
      valence == PyFloat(r.valence)
      arousal == PyFloat(r.arousal)
      parsed == FromIsoFormat(r.timestamp)
      timestamp == AsTimezoneKolkata(parsed.val, localOff)
      keep(rsp) == [store |-> store, resp |-> rsp]
  IN IF r.method # "POST"
     THEN keep(Resp(400, "Invalid request. Use POST method.", <<>>, 0, s1))
     ELSE IF r.body = "malformed" THEN keep(UploadEmotionExcept("JSONDecodeError", s1))
     ELSE IF r.body = "badutf8" THEN keep(UploadEmotionExcept("UnicodeDecodeError", s1))
     ELSE IF r.body # "object" THEN keep(UploadEmotionExcept("AttributeError", s1))
     ELSE IF ~RequiredFields(r)
     THEN keep(Resp(400, "Missing required fields. Need: userid, timestamp, valence, arousal",
                    <<>>, 0, s1))
     ELSE IF IsExc(valence) THEN keep(UploadEmotionExcept(valence.k, s2))
     ELSE IF IsExc(arousal) THEN keep(UploadEmotionExcept(arousal.k, s2))
     ELSE IF ~InRange(valence) \/ ~InRange(arousal)
     THEN keep(Resp(400, "Valence and arousal values must be between 0.0 and 5.0",
                    <<>>, 0, s2))
     ELSE IF ~IsStr(r.timestamp)
     THEN keep(Resp(400, "Timestamp must be in ISO format", <<>>, 0, s3))
     ELSE IF parsed.exc = "ValueError"
     THEN keep(Resp(400, "Invalid timestamp format. Use ISO format", <<>>, 0, s3))
     ELSE IF timestamp.exc = "ValueError"
     THEN keep(Resp(400, "Invalid timestamp format. Use ISO format", <<>>, 0, s3))
     ELSE IF timestamp.exc # "none" THEN keep(UploadEmotionExcept(timestamp.exc, s3))
     ELSE [store |-> CreateEmotion(store, PyStr(r.userid), timestamp.val,
                                   valence, arousal),
           resp |-> Resp(201, "Successfully processed emotion data.",
                         <<Len(store) + 1>>, 0, s6)]

---------------------------------------------------------------------------
\* Requests.

Req(route, method, hasFile, body, typeTag, samplesKind, samples, formUserid, fields) ==
  [route |-> route, method |-> method, hasFile |-> hasFile, body |-> body,
   typeTag |-> typeTag, samplesKind |-> samplesKind, samples |-> samples,
   formUserid |-> formUserid, userid |-> fields[1], timestamp |-> fields[2],
   valence |-> fields[3], arousal |-> fields[4]]

BatchReq(method, hasFile, body, typeTag, samplesKind, samples, formUserid) ==
  Req("batch", method, hasFile, body, typeTag, samplesKind, samples, formUserid,
      <<Absent, Absent, Absent, Absent>>)

EmotionReq(method, body, userid, timestamp, valence, arousal) ==
  Req("emotion", method, FALSE, body, "absent", "absent", <<>>, "absent",
      <<userid, timestamp, valence, arousal>>)

NoReq == Req("none", "GET", FALSE, "object", "absent", "absent", <<>>, "absent",
             <<Absent, Absent, Absent, Absent>>)

\* Instants used by the inputs, in epoch seconds.
T2025 == 1761045300     \* 2025-10-21T11:15:00Z
T1943 == 0 - 850003200  \* 1943-01-25T00:00:00Z

\* The samples a batch is drawn from (bpm in tenths).
GoodSamples ==
  { Sample(Num(0), Num(600)),                       \* {"ts": 0, "bpm": 60}
    Sample(R("num", T1943, 250), NumStr(725)) }     \* ts in 1943, bpm "72.5"
DroppedSamples ==
  { Sample(Num(0), Absent),                         \* no bpm
    Sample(Null, Num(600)),                         \* ts null
    Sample(Text, Num(600)),                         \* ts "u1"
    Sample(Num(0), List),                           \* bpm [60]
    Sample(NaN, Num(600)) }                         \* ts NaN
RaisingSamples ==
  { Sample(Infinity, Num(600)),                     \* ts Infinity
    NotAnObject }                                   \* 5
Samples == GoodSamples \cup DroppedSamples \cup RaisingSamples

SeqsUpTo(S, n) == UNION { [1..k -> S] : k \in 0..n }

Batches == SeqsUpTo(Samples, MaxSamples)

FormUserids == {"absent", "7", "abc"}

BatchRequests ==
  { BatchReq("GET", TRUE, "object", "heart_rate_batch", "list", <<>>, "absent"),
    BatchReq("POST", FALSE, "object", "heart_rate_batch", "list", <<>>, "absent") }
  \cup { BatchReq("POST", TRUE, b, "heart_rate_batch", "list", <<>>, "absent") :
           b \in {"malformed", "badutf8"} }
  \cup { BatchReq("POST", TRUE, b, t, k, IF k = "list" THEN s ELSE <<>>, "absent") :
           b \in {"array", "object"},
           t \in {"heart_rate_batch", "health_data_batch", "absent"},
           k \in {"list", "absent", "null"},
           s \in SeqsUpTo(GoodSamples, 1) }
  \cup { BatchReq("POST", TRUE, "object", "heart_rate_batch", "list", s, u) :
           s \in Batches, u \in FormUserids }

Userids == {Text, Absent, Num(0), EmptyStr}
Timestamps ==
  { IsoZ(T2025), IsoZ(T1943), IsoNaive(T2025), IsoPlus2(T2025), Text,
    R("num", T2025, 0), Absent, IsoFar }
Valences ==
  { Num(50000), Num(50001), NumStr(32000), Text, NaN, Huge, List, Absent }
Arousals == { Num(0), Num(-1), Text, Absent }

EmotionRequests ==
  { EmotionReq("GET", "object", Text, IsoZ(T2025), Num(50000), Num(0)) }
  \cup { EmotionReq("POST", b, Absent, Absent, Absent, Absent) :
           b \in {"malformed", "badutf8", "array"} }
  \cup { EmotionReq("POST", "object", u, t, v, a) :
           u \in Userids, t \in Timestamps, v \in Valences, a \in Arousals }

---------------------------------------------------------------------------
\* The server: requests arrive one at a time and run to completion.

Workers == {"w1", "w2"}

Worker(wpc, samples, i, ids, userId, rsp) ==
  [pc |-> wpc, samples |-> samples, i |-> i, ids |-> ids, userId |-> userId,
   resp |-> rsp]
IdleWorker == Worker("idle", <<>>, 1, <<>>, 0, NoResp)
NoWorkers == [w \in Workers |-> IdleWorker]

Init ==
  /\ hrStore = <<>>
  /\ emoStore = <<>>
  /\ pc = "idle"
  /\ req = NoReq
  /\ resp = NoResp
  /\ nreq = 0
  /\ workers = NoWorkers

ReceiveBatch ==
  /\ pc = "idle"
  /\ nreq < MaxRequests
  /\ \E r \in BatchRequests : req' = r
  /\ pc' = "received"
  /\ UNCHANGED <<hrStore, emoStore, resp, nreq, workers>>

ReceiveEmotion ==
  /\ pc = "idle"
  /\ nreq < MaxRequests
  /\ \E r \in EmotionRequests : req' = r
  /\ pc' = "received"
  /\ UNCHANGED <<hrStore, emoStore, resp, nreq, workers>>

HandleBatch ==
  /\ pc = "received"
  /\ req.route = "batch"
  /\ LET out == upload_json(req, hrStore)
     IN /\ hrStore' = out.store
        /\ resp' = out.resp
  /\ pc' = "done"
  /\ nreq' = nreq + 1
  /\ UNCHANGED <<emoStore, req, workers>>

HandleEmotion ==
  /\ pc = "received"
  /\ req.route = "emotion"
  /\ \E localOff \in LocalOffsets :
       LET out == upload_emotion_json(req, emoStore, localOff)
       IN /\ emoStore' = out.store
          /\ resp' = out.resp
  /\ pc' = "done"
  /\ nreq' = nreq + 1
  /\ UNCHANGED <<hrStore, req, workers>>

Respond ==
  /\ pc = "done"
  /\ pc' = "idle"
  /\ req' = NoReq
  /\ resp' = NoResp
  /\ UNCHANGED <<hrStore, emoStore, nreq, workers>>

Next == ReceiveBatch \/ ReceiveEmotion \/ HandleBatch \/ HandleEmotion \/ Respond

Spec == Init /\ [][Next]_vars

---------------------------------------------------------------------------
\* Concurrent requests: each insert is its own autocommitted statement, so
\* two batch uploads, and an emotion submission, interleave between the
\* passes of the for loop.

ConcSamples ==
  { Sample(Num(0), Num(600)), Sample(Num(0), Absent), NotAnObject }

ConcRequests ==
  { BatchReq("POST", TRUE, "object", "heart_rate_batch", "list", s, u) :
      s \in SeqsUpTo(ConcSamples, MaxSamples), u \in {"absent", "7"} }
  \cup { BatchReq("POST", TRUE, "object", "health_data_batch", "list", <<>>, "absent") }

ConcEmotionRequests ==
  { EmotionReq("POST", "object", Text, IsoZ(T2025), v, Num(0)) :
      v \in {Num(50000), Num(50001)} }

ConcBegin(w) ==
  /\ workers[w].pc = "idle"
  /\ \E r \in ConcRequests :
       LET e == UploadJsonEnvelope(r)
       IN workers' = [workers EXCEPT ![w] =
            IF e.early THEN Worker("done", <<>>, 1, <<>>, 0, e.resp)
            ELSE Worker("loop", e.samples, 1, <<>>, e.userId, NoResp)]
  /\ UNCHANGED <<hrStore, emoStore, pc, req, resp, nreq>>

ConcStep(w) ==
  /\ workers[w].pc = "loop"
  /\ workers[w].i <= Len(workers[w].samples)
  /\ LET me == workers[w]
         step == LoopStep(me.samples[me.i], hrStore, me.ids, me.userId)
     IN /\ hrStore' = step.store
        /\ workers' = [workers EXCEPT ![w] =
             IF step.exc # "none"
             THEN Worker("done", me.samples, me.i, step.ids, me.userId,
                         UploadJsonExcept(step.exc, step.ids, me.i))
             ELSE Worker("loop", me.samples, me.i + 1, step.ids, me.userId, NoResp)]
  /\ UNCHANGED <<emoStore, pc, req, resp, nreq>>

ConcFinish(w) ==
  /\ workers[w].pc = "loop"
  /\ workers[w].i > Len(workers[w].samples)
  /\ LET me == workers[w]
     IN workers' = [workers EXCEPT ![w] =
          Worker("done", me.samples, me.i, me.ids, me.userId,
                 UploadJsonSummary(me.ids, Len(me.samples)))]
  /\ UNCHANGED <<hrStore, emoStore, pc, req, resp, nreq>>

ConcEmotion ==
  /\ emoStore = <<>>
  /\ \E r \in ConcEmotionRequests : \E localOff \in LocalOffsets :
       emoStore' = upload_emotion_json(r, emoStore, localOff).store
  /\ UNCHANGED <<hrStore, pc, req, resp, nreq, workers>>

NextConc ==
  \/ \E w \in Workers : ConcBegin(w)
  \/ \E w \in Workers : ConcStep(w)
  \/ \E w \in Workers : ConcFinish(w)
  \/ ConcEmotion

SpecConc == Init /\ [][NextConc]_vars

---------------------------------------------------------------------------
\* Properties.  The vocabulary below reads the request and the response of
\* the request just handled (pc = "done"); it is stated on the inputs, not
\* through the handlers' own operators.

Done(route) == pc = "done" /\ req.route = route

\* The value of a float, or of a JSON number or numeric string, in its unit.
Units(x) == 1000 * x.v + x.f

\* A JSON number or a string holding one.
Numeric(x) == x.tag \in {"num", "str"}

\* float(x) succeeds.
Coercible(x) == x.tag \in {"num", "str", "nan", "inf", "huge"}

\* A batch request whose envelope is valid: a file posted, decoding to an
\* object with the expected type tag and a list of samples.
ValidEnvelope(r) ==
  /\ r.route = "batch" /\ r.method = "POST" /\ r.hasFile
  /\ r.body = "object" /\ r.typeTag = "heart_rate_batch" /\ r.samplesKind = "list"

\* A sample with non-null ts and bpm, both coercible to a number.
HasNumericFields(smp) ==
  /\ smp.isdict
  /\ ~IsNone(smp.ts) /\ ~IsNone(smp.bpm)
  /\ Coercible(smp.ts) /\ Coercible(smp.bpm)

\* A sample with numeric fields whose ts is a finite instant a datetime can
\* hold.
Storable(smp) == HasNumericFields(smp) /\ Numeric(smp.ts)

\* An emotion submission posted as a JSON object.
EmotionObject(r) == r.route = "emotion" /\ r.method = "POST" /\ r.body = "object"

IsoString(x) == x.tag \in {"isoZ", "isoPlus2", "isoNaive", "isoFar"}

ValueInRange(x) == Numeric(x) /\ 0 <= Units(x) /\ Units(x) <= 50000

MissingMessage == "Missing required fields. Need: userid, timestamp, valence, arousal"
RangeMessage == "Valence and arousal values must be between 0.0 and 5.0"

\* C1: every persisted EmotionSample has valence and arousal that are finite
\* numbers within [0.0, 5.0], whatever the requests were.
C1_EmotionRange ==
  \A k \in 1..Len(emoStore) :
    /\ emoStore[k].valence.k = "fin" /\ emoStore[k].arousal.k = "fin"
    /\ 0 <= Units(emoStore[k].valence) /\ Units(emoStore[k].valence) <= 50000
    /\ 0 <= Units(emoStore[k].arousal) /\ Units(emoStore[k].arousal) <= 50000

\* C1 witness: a NaN valence has just been refused while the table holds a
\* record of an earlier submission.
C1_Witness ==
  /\ Done("emotion") /\ EmotionObject(req) /\ req.valence = NaN
  /\ Truthy(req.userid) /\ Truthy(req.timestamp) /\ Numeric(req.arousal)
  /\ resp.status = 400 /\ Len(emoStore) >= 1

\* C2 as claimed: with a valid envelope, records_created <= the number of
\* samples, with equality iff every sample has non-null ts and bpm that are
\* coercible to numbers.
C2_Original ==
  Done("batch") /\ ValidEnvelope(req) =>
    /\ resp.created <= Len(req.samples)
    /\ resp.status = 201 =>
         (resp.created = Len(req.samples)
            <=> \A i \in 1..Len(req.samples) : HasNumericFields(req.samples[i]))

\* C2 amended: with a valid envelope the records created never exceed the
\* samples, and in the 201 summary records_created equals the number of
\* samples iff every sample has non-null, coercible ts and bpm and a ts that
\* is a finite instant a datetime can hold.
C2_RecordsCreated ==
  Done("batch") /\ ValidEnvelope(req) =>
    /\ resp.created <= Len(req.samples)
    /\ resp.status = 201 =>
         (resp.created = Len(req.samples)
            <=> \A i \in 1..Len(req.samples) : Storable(req.samples[i]))

\* C2 witness: a 201 summary of two samples, one stored and one with a NaN
\* ts dropped.
C2_Witness ==
  /\ Done("batch") /\ ValidEnvelope(req) /\ resp.status = 201
  /\ Len(req.samples) = 2 /\ resp.created = 1
  /\ \E i \in 1..2 : req.samples[i].ts = NaN /\ HasNumericFields(req.samples[i])

\* C3 as claimed: with a valid envelope (and a usable user id) every list of
\* samples ends in the 201 summary, every sample is looked at, and exactly
\* the valid samples are persisted.
C3_Original ==
  Done("batch") /\ ValidEnvelope(req) /\ req.formUserid # "abc" =>
    /\ resp.status = 201
    /\ resp.parsed = Len(req.samples)
    /\ resp.created =
         Cardinality({i \in 1..Len(req.samples) : Storable(req.samples[i])})

\* C4 as claimed: a decoded file that is not an object, has another type
\* tag, or carries no samples list is refused with 400, nothing parsed,
\* nothing created.
C4_Original ==
  /\ Done("batch") /\ req.method = "POST" /\ req.hasFile
  /\ req.body \in {"array", "object"}
  /\ (req.body # "object" \/ req.typeTag # "heart_rate_batch"
        \/ req.samplesKind # "list")
  => resp.status = 400 /\ resp.created = 0 /\ resp.parsed = 0

\* C4 amended: the refusal holds when the file is not an object, has another
\* type tag, or has a samples entry that is not a list; an object of the
\* right type with no samples entry at all is taken as an empty batch.
C4_EnvelopeRejected ==
  /\ (/\ Done("batch") /\ req.method = "POST" /\ req.hasFile
      /\ req.body \in {"array", "object"}
      /\ (req.body # "object" \/ req.typeTag # "heart_rate_batch"
            \/ req.samplesKind = "null")
      => resp.status = 400 /\ resp.created = 0 /\ resp.parsed = 0)
  /\ (/\ Done("batch") /\ req.method = "POST" /\ req.hasFile
      /\ req.body = "object" /\ req.typeTag = "heart_rate_batch"
      /\ req.samplesKind = "absent" /\ req.formUserid # "abc"
      => resp.status = 201 /\ resp.created = 0 /\ resp.parsed = 0)

\* C4 witness: a batch of another type tag whose samples are valid has been
\* refused.
C4_Witness ==
  /\ Done("batch") /\ req.body = "object" /\ req.typeTag = "health_data_batch"
  /\ req.samplesKind = "list" /\ Len(req.samples) = 1
  /\ Storable(req.samples[1])
  /\ resp.status = 400 /\ resp.created = 0

\* C5 as claimed: on either route a body that cannot be decoded as JSON gets
\* a 400 with the could-not-decode message and creates nothing.
C5_Original ==
  /\ pc = "done" /\ req.method = "POST"
  /\ (req.route = "batch" => req.hasFile)
  /\ req.body \in {"malformed", "badutf8"}
  => /\ resp.status = 400
     /\ resp.message \in {"Invalid JSON file. Could not decode.",
                          "Invalid JSON data. Could not decode."}
     /\ resp.created = 0

\* A validation failure of an emotion submission, as the claim lists them.
ValidationFailure(r) ==
  \/ IsNone(r.userid) \/ IsNone(r.timestamp)
  \/ IsNone(r.valence) \/ IsNone(r.arousal)
  \/ ~Coercible(r.valence) \/ ~Coercible(r.arousal)
  \/ ~ValueInRange(r.valence) \/ ~ValueInRange(r.arousal)
  \/ ~IsoString(r.timestamp)

\* C6 as claimed: every validation failure of an emotion submission gets a
\* 400 and creates nothing; a 500 is given only when nothing failed
\* validation.
C6_Original ==
  Done("emotion") /\ EmotionObject(req) =>
    /\ ValidationFailure(req) => resp.status = 400 /\ resp.created = 0
    /\ resp.status = 500 => ~ValidationFailure(req)

\* An emotion submission valid but for the values of valence and arousal.
OtherwiseValid(r) ==
  /\ EmotionObject(r) /\ r.userid = Text
  /\ r.timestamp.tag \in {"isoZ", "isoPlus2", "isoNaive"}
  /\ Numeric(r.valence) /\ Numeric(r.arousal)

\* C7: an otherwise valid submission whose valence and arousal, numbers or
\* numeric strings, lie in [0.0, 5.0] (bounds included) is persisted with
\* those values; one with either value outside is refused with the range
\* error and nothing is persisted.
C7_RangeInclusive ==
  Done("emotion") /\ OtherwiseValid(req) =>
    IF ValueInRange(req.valence) /\ ValueInRange(req.arousal)
    THEN /\ resp.status = 201 /\ resp.created = 1
         /\ resp.ids[1] = Len(emoStore)
         /\ Units(emoStore[Len(emoStore)].valence) = Units(req.valence)
         /\ Units(emoStore[Len(emoStore)].arousal) = Units(req.arousal)
    ELSE /\ resp.status = 400 /\ resp.message = RangeMessage
         /\ resp.created = 0

\* C7 witness: valence 5.0 with arousal 0.0 has been persisted.
C7_Witness ==
  /\ Done("emotion") /\ OtherwiseValid(req)
  /\ req.valence = Num(50000) /\ req.arousal = Num(0)
  /\ resp.status = 201
  /\ Units(emoStore[Len(emoStore)].valence) = 50000

\* The records of the batch just handled hold the instants of its samples.
HrInstantsKept ==
  Done("batch") /\ ValidEnvelope(req) /\ resp.status = 201
    /\ resp.created = Len(req.samples) =>
    \A i \in 1..Len(req.samples) :
      /\ hrStore[resp.ids[i]].timestamp.utc = req.samples[i].ts.v
      /\ hrStore[resp.ids[i]].timestamp.ms = req.samples[i].ts.f

\* The record of the "...Z" submission just handled holds its UTC instant.
EmoInstantKept ==
  Done("emotion") /\ resp.status = 201 /\ req.timestamp.tag = "isoZ" =>
    /\ emoStore[resp.ids[1]].timestamp.utc = req.timestamp.v
    /\ emoStore[resp.ids[1]].timestamp.ms = req.timestamp.f

NoNaiveTimestamp ==
  /\ \A k \in 1..Len(hrStore) : hrStore[k].timestamp.aware
  /\ \A k \in 1..Len(emoStore) : emoStore[k].timestamp.aware

\* The timestamps of both tables.
PersistedTimestamps ==
  {hrStore[k].timestamp : k \in 1..Len(hrStore)}
    \cup {emoStore[k].timestamp : k \in 1..Len(emoStore)}

\* C8 as claimed: every persisted timestamp is the instant of its input
\* shown at the fixed offset +05:30, and none is naive.
C8_Original ==
  /\ HrInstantsKept
  /\ EmoInstantKept
  /\ NoNaiveTimestamp
  /\ \A t \in PersistedTimestamps : t.off = 19800

\* C8 amended: every persisted timestamp is the instant of its input and is
\* never naive; its offset is +05:30 for every instant from
\* 1945-10-14T17:30:00Z on (so for epoch-ms 0 and for 2025-10-21T11:15:00Z),
\* and +06:30 for the instants from 1942-08-31T18:30:00Z up to then.
C8_InstantKept ==
  /\ HrInstantsKept
  /\ EmoInstantKept
  /\ NoNaiveTimestamp
  /\ \A t \in PersistedTimestamps :
       /\ t.utc >= 0 - 764145000 => t.off = 19800
       /\ t.utc >= 0 - 862637400 /\ t.utc < 0 - 764145000 => t.off = 23400

\* C8 witness: epoch-ms 0 has been persisted as 1970-01-01T05:30:00+05:30.
C8_Witness ==
  /\ Done("batch") /\ ValidEnvelope(req) /\ resp.status = 201
  /\ Len(req.samples) >= 1 /\ req.samples[1].ts = Num(0) /\ resp.created >= 1
  /\ hrStore[resp.ids[1]].timestamp = Dt(0, 0, 19800, TRUE)
  /\ hrStore[resp.ids[1]].timestamp.utc + hrStore[resp.ids[1]].timestamp.off = 19800

IsPrefix(a, b) == Len(a) <= Len(b) /\ \A k \in 1..Len(a) : a[k] = b[k]

\* A step only appends to the two tables.
AppendOnlyStep ==
  /\ IsPrefix(hrStore, hrStore')
  /\ IsPrefix(emoStore, emoStore')

\* Every row has the id of its place, and every id a batch upload has been
\* given, finished, failed or still running, is a row of its user.
IdsCommitted ==
  /\ \A k \in 1..Len(hrStore) : hrStore[k].id = k
  /\ \A k \in 1..Len(emoStore) : emoStore[k].id = k
  /\ \A w \in Workers : \A j \in 1..Len(workers[w].ids) :
       /\ workers[w].ids[j] <= Len(hrStore)
       /\ hrStore[workers[w].ids[j]].userId = workers[w].userId

\* C9: under every interleaving of the requests the tables only grow, each
\* row keeps its id, and the rows a batch created before it failed stay.
C9_AppendOnly == [][AppendOnlyStep]_vars /\ []IdsCommitted

\* C9 witness: a batch has failed with a 500 on a later sample after its
\* first row was inserted, and a row of the other upload lies after it.
C9_Witness ==
  \E w \in Workers : \E o \in Workers \ {w} :
    /\ workers[w].pc = "done" /\ workers[w].resp.status = 500
    /\ Len(workers[w].ids) >= 1 /\ Len(workers[o].ids) >= 1
    /\ workers[w].ids[1] < workers[o].ids[Len(workers[o].ids)]
    /\ hrStore[workers[w].ids[1]].userId = workers[w].userId
    /\ workers[w].userId # workers[o].userId

StageOrder ==
  <<"Received", "FieldsValidated", "RangeValidated", "TimestampParsed",
    "Persisted", "Summarized">>

\* The fields the required-field check asks for are there.
FieldsGiven(r) ==
  /\ ~IsNone(r.userid) /\ ~IsNone(r.timestamp)
  /\ ~IsNone(r.valence) /\ ~IsNone(r.arousal)

\* C10: the stages of an emotion submission are passed in the fixed order; a
\* record is created only when the fields are given, both values are in
\* range and the timestamp is an ISO string; Summarized comes only with
\* Persisted; and the first failing stage decides the outcome: a missing
\* field gives the missing-fields error, and an out-of-range value gives the
\* range error even when the timestamp is invalid as well.
C10_StageOrder ==
  Done("emotion") /\ EmotionObject(req) =>
    /\ IsPrefix(resp.stages, StageOrder)
    /\ (resp.created = 1 <=> resp.stages = StageOrder)
    /\ (resp.status = 201 <=> resp.created = 1)
    /\ (resp.created = 1 <=> Len(emoStore) >= 1 /\ resp.ids = <<Len(emoStore)>>)
    /\ (resp.created = 1 =>
          /\ FieldsGiven(req)
          /\ ValueInRange(req.valence) /\ ValueInRange(req.arousal)
          /\ IsoString(req.timestamp))
    /\ (~FieldsGiven(req) =>
          resp.message = MissingMessage /\ resp.stages = <<"Received">>)
    /\ (/\ req.userid = Text /\ Truthy(req.timestamp)
        /\ Numeric(req.valence) /\ Numeric(req.arousal)
        /\ ~(ValueInRange(req.valence) /\ ValueInRange(req.arousal))
        => /\ resp.message = RangeMessage
           /\ resp.stages = <<"Received", "FieldsValidated">>)

\* C10 witness: a submission with valence 5.0001 and a timestamp that is not
\* an ISO string has been refused with the range error.
C10_Witness ==
  /\ Done("emotion") /\ EmotionObject(req) /\ req.userid = Text
  /\ req.valence = Num(50001) /\ Numeric(req.arousal)
  /\ req.timestamp = Text
  /\ resp.status = 400 /\ resp.message = RangeMessage

====
